---- MODULE Spec2Model ----
(***************************************************************************)
(* Reverse-mode automatic differentiation of Kytabyte/autodiff:            *)
(* autodiff/engine.py (GradEngine), autodiff/var.py (Var) and              *)
(* autodiff/op.py (the operator contracts).                                *)
(*                                                                         *)
(* Python numbers are modelled as exact rationals <<num, den>> in lowest   *)
(* terms with den > 0; Python's None is the empty tuple.  The synchronous, *)
(* depth-first calls of a backward pass are modelled by an explicit call   *)
(* stack, one step per loop iteration or call.  A call in tail position    *)
(* (backward -> _propagate, _do_task -> _propagate) replaces its frame.    *)
(* Assertions are enabled (the interpreter's default mode).                *)
(***************************************************************************)
EXTENDS Integers, Sequences, FiniteSets, TLC

VARIABLES nodes, grad, eng, stack, err, prog, ip, calls, budget, pass, prev,
          acclog

vars == <<nodes, grad, eng, stack, err, prog, ip, calls, budget, pass, prev,
          acclog>>

(* ------------------------------ bounds --------------------------------- *)

\* user calls (backward or detach) made after the graph is built; the
\* scripts of SpecDeep make one call more
MaxCalls == 2

\* explicit seed gradients are 2..MaxSeed; the seed may also be omitted
MaxSeed == 2

\* a GradEngine driven on its own gets at most MaxDep pending dependencies
\* and at most MaxLog accumulated values between two resets
MaxDep == 3

\* calls made after the graph is built in the runs checked for termination
LiveCalls == 1

MaxLog == 3

(* ----------------------------- numbers --------------------------------- *)

None == <<>>

Abs(n) == IF n < 0 THEN -n ELSE n

RECURSIVE GCD(_, _)
GCD(a, b) == IF b = 0 THEN a ELSE GCD(b, a % b)

\* the rational n/d (d # 0) in lowest terms with a positive denominator
Norm(n, d) ==
    LET g == GCD(Abs(n), Abs(d))
        s == IF d < 0 THEN -1 ELSE 1
    IN  <<(s * n) \div g, (s * d) \div g>>

Rat(n) == <<n, 1>>

RAdd(a, b) == Norm(a[1] * b[2] + b[1] * a[2], a[2] * b[2])

RNeg(a) == <<-a[1], a[2]>>

RSub(a, b) == RAdd(a, RNeg(b))

RMul(a, b) == Norm(a[1] * b[1], a[2] * b[2])

\* a / b for b # 0
RDiv(a, b) == Norm(a[1] * b[2], a[2] * b[1])

RIsZero(a) == a[1] = 0

RLess(a, b) == a[1] * b[2] < b[1] * a[2]

\* x ** k for a natural number k (0 ** 0 is 1, as in Python)
RECURSIVE RPowNat(_, _)
RPowNat(x, k) == IF k = 0 THEN Rat(1) ELSE RMul(x, RPowNat(x, k - 1))

\* x ** p for an integer exponent p (x # 0 when p < 0)
RPow(x, p) ==
    IF p[1] >= 0 THEN RPowNat(x, p[1]) ELSE RDiv(Rat(1), RPowNat(x, -p[1]))

(* ------------------------- results and raises --------------------------- *)

Raise(exc) == [ok |-> FALSE, exc |-> exc, v |-> None]

Ret(v) == [ok |-> TRUE, exc |-> "none", v |-> v]

(* ----------------------------- GradEngine ------------------------------- *)

\* GradEngine.__init__
NewEngine == [num_dep |-> 0, acc |-> None, working |-> FALSE]

\* reset that leaves the engine working
reset_mut(e) == [num_dep |-> 0, acc |-> None, working |-> e.working]

\* GradEngine.reset
reset(e) == [num_dep |-> 0, acc |-> None, working |-> FALSE]

\* GradEngine.is_working
is_working(e) == e.working

\* GradEngine.activate
activate(e) ==
    IF e.working THEN Raise("RuntimeError")
    ELSE Ret([e EXCEPT !.working = TRUE])

\* GradEngine._check_working
check_working(e) == IF ~e.working THEN Raise("RuntimeError") ELSE Ret(e)

\* GradEngine.accumulate
accumulate(e, g) ==
    IF ~check_working(e).ok THEN check_working(e)
    ELSE Ret([e EXCEPT !.acc = RAdd(IF e.acc = None THEN Rat(0) ELSE e.acc, g)])

\* add_dependency that sets the pending count to 1
add_dependency_mut(e) == [e EXCEPT !.num_dep = 1]

\* GradEngine.add_dependency
add_dependency(e) == [e EXCEPT !.num_dep = e.num_dep + 1]

\* del_dependency without its check
del_dependency_mut(e) == Ret([e EXCEPT !.num_dep = e.num_dep - 1])

\* GradEngine.del_dependency
del_dependency(e) ==
    IF e.num_dep <= 0 THEN Raise("ValueError")
    ELSE Ret([e EXCEPT !.num_dep = e.num_dep - 1])

\* GradEngine.zero_dependency
zero_dependency(e) == e.num_dep = 0

\* ready_backward that does not look at the pending count
ready_backward_mut(e) == e.working

\* GradEngine.ready_backward
ready_backward(e) == e.working /\ e.num_dep = 0

\* GradEngine.get_grad
get_grad(e) == e.acc

(* ------------------------------ operands -------------------------------- *)

\* an operand that is a Var (a reference to node k) or a plain Python number
VarRef(k) == [var |-> TRUE, id |-> k, c |-> None]

Const(r) == [var |-> FALSE, id |-> 0, c |-> r]

\* op._val for one input: x.val if isinstance(x, Var) else x
val_of(x) == IF x.var THEN nodes[x.id].val ELSE x.c

(* ------------------------- operator contracts --------------------------- *)

AddOp_compute(inputs) == Ret(RAdd(val_of(inputs[1]), val_of(inputs[2])))

AddOp_gradient(g, output, inputs) ==
    IF Len(inputs) # 2 THEN Raise("AssertionError")
    ELSE Ret([k \in 1..2 |-> IF inputs[k].var THEN g ELSE None])

SubOp_compute(inputs) == Ret(RSub(val_of(inputs[1]), val_of(inputs[2])))

\* -grad on None is a TypeError; it is evaluated only when x2 is a Var
SubOp_gradient(g, output, inputs) ==
    IF Len(inputs) # 2 THEN Raise("AssertionError")
    ELSE IF g = None /\ inputs[2].var THEN Raise("TypeError")
    ELSE Ret(<<IF inputs[1].var THEN g ELSE None,
               IF inputs[2].var THEN RNeg(g) ELSE None>>)

MulOp_compute(inputs) == Ret(RMul(val_of(inputs[1]), val_of(inputs[2])))

\* the two operands' gradients swapped
MulOp_gradient_mut(g, output, inputs) ==
    IF Len(inputs) # 2 THEN Raise("AssertionError")
    ELSE IF g = None /\ (inputs[1].var \/ inputs[2].var) THEN Raise("TypeError")
    ELSE Ret(<<IF inputs[1].var THEN RMul(val_of(inputs[1]), g) ELSE None,
               IF inputs[2].var THEN RMul(val_of(inputs[2]), g) ELSE None>>)

MulOp_gradient(g, output, inputs) ==
    IF Len(inputs) # 2 THEN Raise("AssertionError")
    ELSE IF g = None /\ (inputs[1].var \/ inputs[2].var) THEN Raise("TypeError")
    ELSE Ret(<<IF inputs[1].var THEN RMul(val_of(inputs[2]), g) ELSE None,
               IF inputs[2].var THEN RMul(val_of(inputs[1]), g) ELSE None>>)

DivOp_compute(inputs) ==
    IF RIsZero(val_of(inputs[2])) THEN Raise("ZeroDivisionError")
    ELSE Ret(RDiv(val_of(inputs[1]), val_of(inputs[2])))

\* the denominator's gradient without its minus sign
DivOp_gradient_mut(g, output, inputs) ==
    IF Len(inputs) # 2 THEN Raise("AssertionError")
    ELSE LET x1_val == val_of(inputs[1])
             x2_val == val_of(inputs[2])
         IN  IF RIsZero(x2_val) THEN Raise("ZeroDivisionError")
             ELSE IF g = None /\ (inputs[1].var \/ inputs[2].var)
                  THEN Raise("TypeError")
             ELSE Ret(<<IF inputs[1].var THEN RDiv(g, x2_val) ELSE None,
                        IF inputs[2].var
                        THEN RDiv(RMul(x1_val, g), RMul(x2_val, x2_val))
                        ELSE None>>)

DivOp_gradient(g, output, inputs) ==
    IF Len(inputs) # 2 THEN Raise("AssertionError")
    ELSE LET x1_val == val_of(inputs[1])
             x2_val == val_of(inputs[2])
         IN  IF RIsZero(x2_val) THEN Raise("ZeroDivisionError")
             ELSE IF g = None /\ (inputs[1].var \/ inputs[2].var)
                  THEN Raise("TypeError")
             ELSE Ret(<<IF inputs[1].var THEN RDiv(g, x2_val) ELSE None,
                        IF inputs[2].var
                        THEN RDiv(RMul(RNeg(x1_val), g), RMul(x2_val, x2_val))
                        ELSE None>>)

NegOp_compute(inputs) == Ret(RNeg(val_of(inputs[1])))

\* returns (-grad,) whatever the operand is
NegOp_gradient(g, output, inputs) ==
    IF Len(inputs) # 1 THEN Raise("AssertionError")
    ELSE IF g = None THEN Raise("TypeError")
    ELSE Ret(<<RNeg(g)>>)

\* compute without the check of the base and the exponent
PowOp_compute_mut(inputs) ==
    Ret(RPow(val_of(inputs[1]), val_of(inputs[2])))

PowOp_compute(inputs) ==
    LET x_val == val_of(inputs[1])
        p_val == val_of(inputs[2])
    IN  IF RIsZero(x_val) /\ RLess(p_val, Rat(0)) THEN Raise("ZeroDivisionError")
        ELSE Ret(RPow(x_val, p_val))

\* after "assert len(inputs) == 2", "y, x, p = inputs" unpacks the two inputs
\* into three names: ValueError, whatever the operands are.  The formulas
\* below that line are never reached.
PowOp_gradient(g, output, inputs) ==
    IF Len(inputs) # 2 THEN Raise("AssertionError")
    ELSE Raise("ValueError")

Ops == {"add", "sub", "mul", "div", "neg", "pow"}

\* cls.compute(*inputs)
compute(op, inputs) ==
    CASE op = "add" -> AddOp_compute(inputs)
      [] op = "sub" -> SubOp_compute(inputs)
      [] op = "mul" -> MulOp_compute(inputs)
      [] op = "div" -> DivOp_compute(inputs)
      [] op = "neg" -> NegOp_compute(inputs)
      [] op = "pow" -> PowOp_compute(inputs)

\* self._op.gradient(grad, self.val, *self._parents)
gradient(op, g, output, inputs) ==
    CASE op = "add" -> AddOp_gradient(g, output, inputs)
      [] op = "sub" -> SubOp_gradient(g, output, inputs)
      [] op = "mul" -> MulOp_gradient(g, output, inputs)
      [] op = "div" -> DivOp_gradient(g, output, inputs)
      [] op = "neg" -> NegOp_gradient(g, output, inputs)
      [] op = "pow" -> PowOp_gradient(g, output, inputs)

\* Var.__init__: a leaf, _op None and no parents
NewVarNode(v) == [val |-> v, op |-> "None", parents |-> <<>>]

\* _Op.__new__: compute, then tag the output with the operator and the inputs
Op_new(op, inputs) ==
    LET r == compute(op, inputs)
    IN  IF ~r.ok THEN r
        ELSE Ret([val |-> r.v, op |-> op, parents |-> inputs])

\* the module functions add, sub, mul, div, neg, reciprocal, pow
op_call(f, args) ==
    IF f = "reciprocal" THEN Op_new("div", <<Const(Rat(1)), args[1]>>)
    ELSE Op_new(f, args)

\* the contract an operator written on a Var goes to
Contract(sym, args) ==
    CASE sym = "+"  -> "add"
      [] sym = "-"  -> IF Len(args) = 1 THEN "neg" ELSE "sub"
      [] sym = "*"  -> "mul"
      [] sym = "/"  -> "div"
      [] sym = "**" -> "pow"

Syms == {"+", "-", "*", "/", "**"}

\* Var.__add__ .. Var.__pow__ as Python dispatches them for "l sym r" with
\* at least one Var: l.__sym__(r) when l is a Var, otherwise the reflected
\* method of r; __radd__ and __rmul__ are __add__ and __mul__ (self first),
\* __rsub__ and __rtruediv__ pass (other, self), and there is no __rpow__
var_operator(sym, args) ==
    IF Len(args) = 1 THEN op_call("neg", args)
    ELSE IF args[1].var THEN op_call(Contract(sym, args), args)
    ELSE CASE sym \in {"+", "*"} -> op_call(Contract(sym, args), <<args[2], args[1]>>)
           [] sym \in {"-", "/"} -> op_call(Contract(sym, args), args)
           [] sym = "**"         -> Raise("TypeError")

\* one statement of the script that builds a node
statement(st) ==
    IF st.f \in Syms THEN var_operator(st.f, st.args) ELSE op_call(st.f, st.args)

\* Var._is_leaf
is_leaf(n) == nodes[n].op = "None"

(* ------------------------- the user's script ---------------------------- *)

\* a statement: Var(v), a call f(args) of one of the module functions, an
\* operator written on Vars ("+", "-", "*", "/", "**"), or n.backward()
SVar(v) == [f |-> "Var", args |-> <<Const(Rat(v))>>]

S1(f, a) == [f |-> f, args |-> <<a>>]

S2(f, a, b) == [f |-> f, args |-> <<a, b>>]

X(k) == VarRef(k)

K(v) == Const(Rat(v))

SBackward(n) == S1("backward", X(n))

BinOps == {"add", "sub", "mul", "div"}

ValPairs == {<<1, 2>>, <<3, -2>>, <<0, 2>>, <<2, 0>>}

Patterns == {"vv", "vc", "cv", "same", "swap"}

\* one binary operator on two leaves a, b, a leaf and a constant, or one leaf twice
SingleOp(f, a, b, pat) ==
    <<SVar(a), SVar(b),
      CASE pat = "vv"   -> S2(f, X(1), X(2))
        [] pat = "vc"   -> S2(f, X(1), K(b))
        [] pat = "cv"   -> S2(f, K(a), X(2))
        [] pat = "same" -> S2(f, X(1), X(1))
        [] pat = "swap" -> S2(f, X(2), X(1))>>

SinglePrograms ==
    {SingleOp(f, ab[1], ab[2], pat) : f \in BinOps, ab \in ValPairs, pat \in Patterns}

\* x1, x2, x3 = 1, 2, 3; y1 = x1 * x2; y2 = x2 + x3; y3 = y1 / y2  (test_topo1)
Topo1 ==
    <<SVar(1), SVar(2), SVar(3),
      S2("mul", X(1), X(2)), S2("add", X(2), X(3)), S2("div", X(4), X(5))>>

GraphPrograms ==
    { Topo1,
      \* x = 3; y = x * x; z = y * x
      <<SVar(3), S2("mul", X(1), X(1)), S2("mul", X(2), X(1))>>,
      \* a = x1 - x2; b = -a; c = b / a; d = c * x1
      <<SVar(2), SVar(3), S2("sub", X(1), X(2)), S1("neg", X(3)),
        S2("div", X(4), X(3)), S2("mul", X(5), X(1))>>,
      \* s = x1 + x2; m = s * x1; d = x1 - m
      <<SVar(1), SVar(2), S2("add", X(1), X(2)), S2("mul", X(3), X(1)),
        S2("sub", X(1), X(4))>>,
      \* s = x1 + x2; m = x1 * s; d = m - x1; q = 2 / d
      <<SVar(1), SVar(2), S2("add", X(1), X(2)), S2("mul", X(1), X(3)),
        S2("sub", X(4), X(1)), S2("div", K(2), X(5))>>,
      \* x3 = x1 + (-x2)  (test_neg)
      <<SVar(1), SVar(2), S1("neg", X(2)), S2("add", X(1), X(3))>>,
      <<SVar(2), S1("neg", X(1))>>,
      <<SVar(2), S1("neg", K(5)), S2("add", X(1), X(2))>>,
      <<SVar(2), S1("reciprocal", X(1))>>,
      <<SVar(0), S1("reciprocal", X(1))>>,
      <<S2("add", K(1), K(2))>>,
      \* s = x1 + x2; s.backward(); then a division by x2 = 0
      <<SVar(2), SVar(0), S2("+", X(1), X(2)), SBackward(3), S2("/", X(1), X(2))>>,
      <<SVar(2), SVar(0), S2("+", X(1), X(2)), SBackward(3), S1("reciprocal", X(2))>>,
      <<SVar(2), SVar(0), S2("+", X(1), X(2)), SBackward(3), S2("div", K(1), X(2))>>,
      <<SVar(2), S2("*", X(1), X(1)), SBackward(2), S2("/", X(1), K(0))>>,
      \* y = x * 3; y.backward(); z = y - x
      <<SVar(2), S2("*", X(1), K(3)), SBackward(2), S2("-", X(2), X(1))>> }

\* x sym y, x sym c and c sym x for x = 3, y = c = -2, and -x  (test_op)
OperatorPrograms ==
    {<<SVar(3), SVar(-2), S2(sym, X(1), X(2))>> : sym \in Syms}
    \cup {<<SVar(3), S2(sym, X(1), K(-2))>> : sym \in Syms}
    \cup {<<SVar(-2), S2(sym, K(3), X(1))>> : sym \in Syms}
    \cup {<<SVar(3), S1("-", X(1))>>,
          <<SVar(0), S2("**", X(1), K(-1))>>,
          <<SVar(0), S2("/", K(3), X(1))>>}

PowPrograms ==
    {<<SVar(x), S2("pow", X(1), K(p))>> : x \in {0, 2, -1}, p \in {-1, 0, 1, 2}}
    \cup
    { \* a Var exponent
      <<SVar(2), SVar(3), S2("pow", X(1), X(2))>>,
      \* y = x ** 2; z = x + 1
      <<SVar(3), S2("pow", X(1), K(2)), S2("add", X(1), K(1))>>,
      \* p = x1 ** 2; m = p * x2; z = x2 + 1
      <<SVar(2), SVar(3), S2("pow", X(1), K(2)), S2("mul", X(3), X(2)),
        S2("add", X(2), K(1))>>,
      \* m = x * 2; p = m ** 2; z = m + x
      <<SVar(2), S2("mul", X(1), K(2)), S2("pow", X(2), K(2)),
        S2("add", X(2), X(1))>>,
      \* a = 1; x = 0; y = x ** 0; z = a + y
      <<SVar(1), SVar(0), S2("pow", X(2), K(0)), S2("add", X(1), X(3))>>,
      \* 0 ** p for a Var p = -1
      <<SVar(-1), S2("pow", K(0), X(1))>>,
      \* s = x + a; s.backward(); then 0 ** -1
      <<SVar(0), SVar(1), S2("add", X(1), X(2)), SBackward(3),
        S2("pow", X(1), K(-1))>> }

Programs == SinglePrograms \cup GraphPrograms \cup OperatorPrograms \cup PowPrograms

\* seed gradients: omitted (None), or an explicit number
Seeds == {None} \cup {Rat(k) : k \in 2..MaxSeed}

(* ------------------------------ the state ------------------------------- *)

NodeIds == 1..Len(nodes)

Built == ip > Len(prog)

Frame(fn, self, pc, i, gs) == [fn |-> fn, self |-> self, pc |-> pc, i |-> i, grads |-> gs]

Top == stack[Len(stack)]

Pop == SubSeq(stack, 1, Len(stack) - 1)

SetTop(fr) == [stack EXCEPT ![Len(stack)] = fr]

\* the nodes reachable from n through operand references, n included
RECURSIVE Reach(_)
Reach(n) ==
    {n} \cup UNION {Reach(nodes[n].parents[k].id) :
                       k \in {j \in 1..Len(nodes[n].parents) : nodes[n].parents[j].var}}

Idle(e) == e = NewEngine

NoPass ==
    [kind |-> "none", out |-> 0, seed |-> None, clean |-> TRUE, live |-> FALSE,
     status |-> "idle", fired |-> <<>>, recv |-> <<>>, disc |-> <<>>,
     expanded |-> <<>>]

\* no Var exists yet and no call has been made
Fresh ==
    /\ ip = 1
    /\ nodes = <<>>
    /\ grad = <<>>
    /\ eng = <<>>
    /\ acclog = <<>>
    /\ stack = <<>>
    /\ err = "none"
    /\ calls = 0
    /\ pass = NoPass
    /\ prev = [kind |-> "none", out |-> 0, seed |-> None, status |-> "idle", grad |-> <<>>]

Init ==
    /\ prog \in Programs
    /\ budget = MaxCalls
    /\ Fresh

\* the scripts with a pow node, followed by one more call
InitDeep ==
    /\ prog \in PowPrograms
    /\ budget = MaxCalls + 1
    /\ Fresh

\* what is remembered of the call that ended before the current one
Summary == [kind |-> pass.kind, out |-> pass.out, seed |-> pass.seed,
            status |-> pass.status, grad |-> grad]

(* ---------------------------- construction ------------------------------ *)

\* Var(v)
NewVar ==
    /\ ~Built
    /\ stack = <<>>
    /\ prog[ip].f = "Var"
    /\ nodes' = Append(nodes, NewVarNode(prog[ip].args[1].c))
    /\ grad' = Append(grad, None)
    /\ eng' = Append(eng, NewEngine)
    /\ acclog' = Append(acclog, <<>>)
    /\ ip' = ip + 1
    /\ err' = "none"
    /\ UNCHANGED <<stack, prog, calls, budget, pass, prev>>

\* add(..), sub(..), x + y, ...: a raise leaves no node and ends the script
ApplyOp ==
    /\ ~Built
    /\ stack = <<>>
    /\ prog[ip].f \notin {"Var", "backward"}
    /\ LET r == statement(prog[ip])
       IN  IF r.ok
           THEN /\ nodes' = Append(nodes, r.v)
                /\ grad' = Append(grad, None)
                /\ eng' = Append(eng, NewEngine)
                /\ acclog' = Append(acclog, <<>>)
                /\ ip' = ip + 1
                /\ err' = "none"
           ELSE /\ err' = r.exc
                /\ ip' = Len(prog) + 1
                /\ UNCHANGED <<nodes, grad, eng, acclog>>
    /\ UNCHANGED <<stack, prog, calls, budget, pass, prev>>

(* --------------------------- the backward pass -------------------------- *)

Zeros == [k \in NodeIds |-> 0]

\* the base gradient: 1. if grad is None else grad
SeedVal(seed) == IF seed = None THEN Rat(1) ELSE seed

\* the values an engine has accumulated since it was created or last reset
Logged(n, g) == [acclog EXCEPT ![n] = Append(acclog[n], g)]

Unlogged(n) == [acclog EXCEPT ![n] = <<>>]

Bump(f, n) == [f EXCEPT ![n] = f[n] + 1]

\* an exception unwinds every frame of the call
Unwind(exc) ==
    /\ stack' = <<>>
    /\ err' = exc

\* an exception that leaves a backward() of the script ends the script
ScriptGoesOn ==
    ip' = IF ~Built /\ err' # "none" THEN Len(prog) + 1 ELSE ip

\* backward(grad), lines 148-151: activate and seed the output's engine
\* unless it is working already
backward_entry(e, seed) ==
    IF is_working(e) THEN Ret(e)
    ELSE LET a == activate(e)
         IN  IF ~a.ok THEN a
             ELSE accumulate(a.v, SeedVal(seed))

\* n.backward(seed) is called, by the script or after it
CallBackward(n, seed) ==
    /\ stack = <<>>
    /\ IF Built THEN calls < budget
       ELSE prog[ip] = SBackward(n) /\ seed = None
    /\ calls' = calls + 1
    /\ prev' = Summary
    /\ LET r == backward_entry(eng[n], seed)
           p == [kind |-> "backward", out |-> n, seed |-> seed,
                 clean |-> \A k \in NodeIds : Idle(eng[k]),
                 live |-> \E k \in Reach(n) : is_working(eng[k]),
                 status |-> "running", fired |-> Zeros, recv |-> Zeros,
                 disc |-> Zeros, expanded |-> Zeros]
       IN  IF r.ok
           THEN /\ eng' = [eng EXCEPT ![n] = r.v]
                /\ acclog' = IF is_working(eng[n]) THEN acclog
                             ELSE Logged(n, SeedVal(seed))
                /\ stack' = <<Frame("backward", n, "loop", 1, <<>>)>>
                /\ err' = "none"
                /\ pass' = p
           ELSE /\ Unwind(r.exc)
                /\ pass' = [p EXCEPT !.status = "raised"]
                /\ UNCHANGED <<eng, acclog>>
    /\ ip' = IF Built THEN ip
             ELSE IF err' # "none" THEN Len(prog) + 1 ELSE ip + 1
    /\ UNCHANGED <<nodes, grad, prog, budget>>

\* backward, lines 153-159: _start_task on each parent that is a Var, then
\* _propagate on the output
BackwardLoop ==
    /\ stack # <<>>
    /\ Top.fn = "backward"
    /\ LET ps == nodes[Top.self].parents
           i  == Top.i
       IN  stack' =
             IF i <= Len(ps)
             THEN IF ps[i].var
                  THEN Append(SetTop([Top EXCEPT !.i = i + 1]),
                              Frame("start_task", ps[i].id, "entry", 1, <<>>))
                  ELSE SetTop([Top EXCEPT !.i = i + 1])
             ELSE SetTop(Frame("propagate", Top.self, "entry", 1, <<>>))
    /\ UNCHANGED <<nodes, grad, eng, err, prog, ip, calls, budget, pass, prev,
                   acclog>>

\* _start_task, lines 168-181, on its first visit: activate, add a dependency
start_task_first(e) ==
    LET a == activate(e)
    IN  IF ~a.ok THEN a ELSE Ret(add_dependency(a.v))

\* _start_task: a node seen for the first time is activated, gets one
\* dependency and passes _start_task on to its parents; a working node only
\* gets one more dependency
StartTask ==
    /\ stack # <<>>
    /\ Top.fn = "start_task"
    /\ LET n  == Top.self
           ps == nodes[n].parents
           i  == Top.i
       IN  IF Top.pc = "entry"
           THEN IF ~is_working(eng[n])
                THEN LET r == start_task_first(eng[n])
                     IN  IF r.ok
                         THEN /\ eng' = [eng EXCEPT ![n] = r.v]
                              /\ stack' = SetTop([Top EXCEPT !.pc = "loop"])
                              /\ pass' = [pass EXCEPT
                                            !.disc = Bump(pass.disc, n),
                                            !.expanded = Bump(pass.expanded, n)]
                              /\ UNCHANGED err
                         ELSE /\ Unwind(r.exc)
                              /\ pass' = [pass EXCEPT !.status = "raised",
                                                      !.disc = Bump(pass.disc, n)]
                              /\ UNCHANGED eng
                ELSE /\ eng' = [eng EXCEPT ![n] = add_dependency(eng[n])]
                     /\ stack' = Pop
                     /\ pass' = [pass EXCEPT !.disc = Bump(pass.disc, n)]
                     /\ UNCHANGED err
           ELSE /\ stack' =
                     IF i <= Len(ps)
                     THEN IF ps[i].var
                          THEN Append(SetTop([Top EXCEPT !.i = i + 1]),
                                      Frame("start_task", ps[i].id, "entry", 1, <<>>))
                          ELSE SetTop([Top EXCEPT !.i = i + 1])
                     ELSE Pop
                /\ UNCHANGED <<eng, err, pass>>
    /\ ScriptGoesOn
    /\ UNCHANGED <<nodes, grad, prog, calls, budget, prev, acclog>>

\* _propagate, lines 186-194: take the accumulated gradient; a leaf stores
\* it, any other node asks its operator for its parents' gradients
Propagate ==
    /\ stack # <<>>
    /\ Top.fn = "propagate"
    /\ Top.pc = "entry"
    /\ LET n == Top.self
           g == get_grad(eng[n])
           r == gradient(nodes[n].op, g, nodes[n].val, nodes[n].parents)
           fired == [pass EXCEPT !.fired = Bump(pass.fired, n)]
       IN  IF is_leaf(n)
           THEN /\ grad' = [grad EXCEPT ![n] = g]
                /\ stack' = SetTop([Top EXCEPT !.pc = "loop"])
                /\ pass' = fired
                /\ UNCHANGED err
           ELSE IF r.ok
                THEN /\ stack' = SetTop([Top EXCEPT !.pc = "loop", !.grads = r.v])
                     /\ pass' = fired
                     /\ UNCHANGED <<grad, err>>
                ELSE /\ Unwind(r.exc)
                     /\ pass' = [fired EXCEPT !.status = "raised"]
                     /\ UNCHANGED grad
    /\ ScriptGoesOn
    /\ UNCHANGED <<nodes, eng, prog, calls, budget, prev, acclog>>

ZipLen(fr) ==
    IF Len(fr.grads) < Len(nodes[fr.self].parents)
    THEN Len(fr.grads) ELSE Len(nodes[fr.self].parents)

\* _propagate, lines 195-197: one turn of "for grad, parent in zip(..)"
Deliver ==
    /\ stack # <<>>
    /\ Top.fn = "propagate"
    /\ Top.pc = "loop"
    /\ Top.i <= ZipLen(Top)
    /\ LET parent == nodes[Top.self].parents[Top.i]
           g      == Top.grads[Top.i]
           next   == SetTop([Top EXCEPT !.i = Top.i + 1])
       IN  stack' = IF parent.var /\ g # None
                    THEN Append(next, Frame("do_task", parent.id, "entry", 1, <<g>>))
                    ELSE next
    /\ UNCHANGED <<nodes, grad, eng, err, prog, ip, calls, budget, pass, prev,
                   acclog>>

\* _do_task, lines 205-211: accumulate, remove one dependency, and
\* propagate when the engine is ready
DoTask ==
    /\ stack # <<>>
    /\ Top.fn = "do_task"
    /\ LET n == Top.self
           a == accumulate(eng[n], Top.grads[1])
           d == del_dependency(a.v)
       IN  IF ~a.ok
           THEN /\ Unwind(a.exc)
                /\ pass' = [pass EXCEPT !.status = "raised"]
                /\ UNCHANGED <<eng, acclog>>
           ELSE IF ~d.ok
           THEN /\ Unwind(d.exc)
                /\ pass' = [pass EXCEPT !.status = "raised",
                                        !.recv = Bump(pass.recv, n)]
                /\ eng' = [eng EXCEPT ![n] = a.v]
                /\ acclog' = Logged(n, Top.grads[1])
           ELSE /\ eng' = [eng EXCEPT ![n] = d.v]
                /\ acclog' = Logged(n, Top.grads[1])
                /\ pass' = [pass EXCEPT !.recv = Bump(pass.recv, n)]
                /\ stack' = IF ready_backward(d.v)
                            THEN SetTop(Frame("propagate", n, "entry", 1, <<>>))
                            ELSE Pop
                /\ UNCHANGED err
    /\ ScriptGoesOn
    /\ UNCHANGED <<nodes, grad, prog, calls, budget, prev>>

\* _end_task that resets every engine
EndTask_mut ==
    /\ stack # <<>>
    /\ Top.fn = "propagate"
    /\ Top.pc = "loop"
    /\ Top.i > ZipLen(Top)
    /\ eng' = [k \in NodeIds |-> reset(eng[k])]
    /\ acclog' = Unlogged(Top.self)
    /\ stack' = Pop
    /\ pass' = IF Len(stack) = 1 THEN [pass EXCEPT !.status = "returned"] ELSE pass
    /\ UNCHANGED <<nodes, grad, err, prog, ip, calls, budget, prev>>

\* _propagate, line 200, and _end_task: reset the engine and return; the
\* call of backward returns when its last frame does
EndTask ==
    /\ stack # <<>>
    /\ Top.fn = "propagate"
    /\ Top.pc = "loop"
    /\ Top.i > ZipLen(Top)
    /\ eng' = [eng EXCEPT ![Top.self] = reset(eng[Top.self])]
    /\ acclog' = Unlogged(Top.self)
    /\ stack' = Pop
    /\ pass' = IF Len(stack) = 1 THEN [pass EXCEPT !.status = "returned"] ELSE pass
    /\ UNCHANGED <<nodes, grad, err, prog, ip, calls, budget, prev>>

\* the user calls n.detach()
Detach(n) ==
    /\ Built
    /\ stack = <<>>
    /\ calls < budget
    /\ calls' = calls + 1
    /\ prev' = Summary
    /\ nodes' = [nodes EXCEPT ![n].parents = <<>>]
    /\ grad' = [grad EXCEPT ![n] = None]
    /\ eng' = [eng EXCEPT ![n] = reset(eng[n])]
    /\ acclog' = Unlogged(n)
    /\ err' = "none"
    /\ pass' = [NoPass EXCEPT !.kind = "detach", !.out = n, !.status = "returned"]
    /\ UNCHANGED <<stack, prog, ip, budget>>

Next ==
    \/ NewVar
    \/ ApplyOp
    \/ \E n \in NodeIds, seed \in Seeds : CallBackward(n, seed)
    \/ BackwardLoop
    \/ StartTask
    \/ Propagate
    \/ Deliver
    \/ DoTask
    \/ EndTask
    \/ \E n \in NodeIds : Detach(n)

Spec == Init /\ [][Next]_vars

(* ----------------------- a GradEngine on its own ------------------------ *)

\* GradEngine(): one engine that belongs to no Var
InitEngine ==
    /\ prog = <<>>
    /\ budget = 0
    /\ ip = 1
    /\ nodes = <<>>
    /\ grad = <<>>
    /\ eng = <<NewEngine>>
    /\ acclog = <<<<>>>>
    /\ stack = <<>>
    /\ err = "none"
    /\ calls = 0
    /\ pass = NoPass
    /\ prev = [kind |-> "none", out |-> 0, seed |-> None, status |-> "idle", grad |-> <<>>]

\* the gradients handed to accumulate
EngGrads == {Rat(1), Rat(-1)}

EngActivate ==
    /\ LET r == activate(eng[1])
       IN  IF r.ok THEN eng' = <<r.v>> /\ err' = "none"
           ELSE err' = r.exc /\ UNCHANGED eng
    /\ UNCHANGED <<nodes, grad, stack, prog, ip, calls, budget, pass, prev, acclog>>

EngAccumulate(g) ==
    /\ Len(acclog[1]) < MaxLog
    /\ LET r == accumulate(eng[1], g)
       IN  IF r.ok THEN eng' = <<r.v>> /\ acclog' = Logged(1, g) /\ err' = "none"
           ELSE err' = r.exc /\ UNCHANGED <<eng, acclog>>
    /\ UNCHANGED <<nodes, grad, stack, prog, ip, calls, budget, pass, prev>>

EngAddDependency ==
    /\ eng[1].num_dep < MaxDep
    /\ eng' = <<add_dependency(eng[1])>>
    /\ err' = "none"
    /\ UNCHANGED <<nodes, grad, stack, prog, ip, calls, budget, pass, prev, acclog>>

EngDelDependency ==
    /\ LET r == del_dependency(eng[1])
       IN  IF r.ok THEN eng' = <<r.v>> /\ err' = "none"
           ELSE err' = r.exc /\ UNCHANGED eng
    /\ UNCHANGED <<nodes, grad, stack, prog, ip, calls, budget, pass, prev, acclog>>

EngReset ==
    /\ eng' = <<reset(eng[1])>>
    /\ acclog' = Unlogged(1)
    /\ err' = "none"
    /\ UNCHANGED <<nodes, grad, stack, prog, ip, calls, budget, pass, prev>>

NextEngine ==
    \/ EngActivate
    \/ \E g \in EngGrads : EngAccumulate(g)
    \/ EngAddDependency
    \/ EngDelDependency
    \/ EngReset

SpecEngine == InitEngine /\ [][NextEngine]_vars

SpecDeep == InitDeep /\ [][Next]_vars

\* a step of a call of backward that is under way
PassStep ==
    BackwardLoop \/ StartTask \/ Propagate \/ Deliver \/ DoTask \/ EndTask

\* every script, followed by LiveCalls calls
InitLive ==
    /\ prog \in Programs
    /\ budget = LiveCalls
    /\ Fresh

\* the calls are synchronous: a call of backward that has begun runs on
\* until it returns or raises
SpecLive == InitLive /\ [][Next]_vars /\ WF_vars(PassStep)

(* ====================== properties of the program ======================= *)

Arity(op) == IF op = "neg" THEN 1 ELSE 2

\* every node reachable from out is a leaf or an add, sub, mul, div or neg
\* node that still has its operands
Arith(out) ==
    \A c \in Reach(out) :
        /\ nodes[c].op \in {"None", "add", "sub", "mul", "div", "neg"}
        /\ nodes[c].op # "None" => Len(nodes[c].parents) = Arity(nodes[c].op)

\* the operand edges <<consumer, position>> of nodes reachable from out that
\* point to n
Edges(out, n) ==
    {e \in Reach(out) \X (1..2) :
        /\ e[2] <= Len(nodes[e[1]].parents)
        /\ nodes[e[1]].parents[e[2]] = VarRef(n)}

\* the partial derivative of node c with respect to its operand at position i
LocalD(c, i) ==
    LET op == nodes[c].op
        x1 == val_of(nodes[c].parents[1])
        x2 == val_of(nodes[c].parents[2])
    IN  CASE op = "add" -> Rat(1)
          [] op = "sub" -> IF i = 1 THEN Rat(1) ELSE Rat(-1)
          [] op = "mul" -> IF i = 1 THEN x2 ELSE x1
          [] op = "div" -> IF i = 1 THEN RDiv(Rat(1), x2)
                           ELSE RNeg(RDiv(x1, RMul(x2, x2)))
          [] op = "neg" -> Rat(-1)

RECURSIVE PathSum(_, _), SumEdges(_, _)
\* the sum over all operand-edge paths from out to n of the product of the
\* local derivatives along the path
PathSum(out, n) == IF n = out THEN Rat(1) ELSE SumEdges(out, Edges(out, n))

SumEdges(out, E) ==
    IF E = {} THEN Rat(0)
    ELSE LET e == CHOOSE x \in E : TRUE
         IN  RAdd(RMul(PathSum(out, e[1]), LocalD(e[1], e[2])),
                  SumEdges(out, E \ {e}))

CleanPass == pass.kind = "backward" /\ pass.clean

Returned == pass.kind = "backward" /\ pass.status = "returned"

\* the node whose _propagate is about to run
Firing == stack # <<>> /\ Top.fn = "propagate" /\ Top.pc = "entry"

\* C1: on an acyclic graph of add, sub, mul, div and neg nodes with every
\* engine in its initial state, backward(seed) on an output does not raise
\* and, when it returns, the gradient of every reachable leaf is seed (1 when
\* omitted) times the sum over the operand-edge paths from the output to the
\* leaf of the product of the local derivatives; for test_topo1's graph that
\* is 0.4, 0.12 and -0.08 times the seed.
C1_ChainRule ==
    (CleanPass /\ Arith(pass.out)) =>
        /\ pass.status # "raised"
        /\ Returned =>
             /\ \A n \in Reach(pass.out) :
                   is_leaf(n) =>
                     grad[n] = RMul(SeedVal(pass.seed), PathSum(pass.out, n))
             /\ (prog = Topo1 /\ pass.out = 6) =>
                   /\ grad[1] = RMul(SeedVal(pass.seed), <<2, 5>>)
                   /\ grad[2] = RMul(SeedVal(pass.seed), <<3, 25>>)
                   /\ grad[3] = RMul(SeedVal(pass.seed), <<-2, 25>>)

\* test_topo1 has run: backward() on y3 has returned and x2 holds 0.12
C1_Witness ==
    /\ prog = Topo1 /\ Returned /\ pass.clean /\ pass.out = 6
    /\ pass.seed = None
    /\ grad[2] = <<3, 25>>

\* C2: in a pass started from a clean state, at the moment a node other
\* than the output fires it has received exactly one contribution per
\* operand edge that points to it from a node reachable from the output.
C2_FiresAfterAllConsumers ==
    (CleanPass /\ Firing /\ Top.self # pass.out) =>
        pass.recv[Top.self] = Cardinality(Edges(pass.out, Top.self))

\* a node with three incoming operand edges from two different consumers
\* is about to fire
C2_Witness ==
    /\ CleanPass /\ Firing /\ Top.self # pass.out
    /\ pass.recv[Top.self] = 3
    /\ Cardinality({e[1] : e \in Edges(pass.out, Top.self)}) = 2

PassOver == pass.status \in {"returned", "raised"}

\* C3: in a pass started from a clean state no node fires twice, a node
\* fires only when its engine is live with pending count 0, and when the
\* pass is over every node reachable from the output has fired exactly once
\* (and no other node has fired).
C3_FiresExactlyOnce ==
    CleanPass =>
        /\ \A n \in NodeIds : pass.fired[n] <= 1
        /\ Firing => (ready_backward(eng[Top.self]) /\ pass.fired[Top.self] = 0)
        /\ PassOver =>
             \A n \in NodeIds :
                 pass.fired[n] = IF n \in Reach(pass.out) THEN 1 ELSE 0

\* C4: when backward on an output returns, the engine of every node
\* reachable from the output is back in its initial state.
C4_EnginesResetOnReturn ==
    Returned => \A n \in Reach(pass.out) : Idle(eng[n])

\* C5: when backward has returned twice in a row on the same output with
\* the same seed, every reachable leaf has the same gradient after the second
\* pass as after the first.
C5_SecondPassSameGradients ==
    (/\ Returned
     /\ prev.kind = "backward" /\ prev.status = "returned"
     /\ prev.out = pass.out /\ prev.seed = pass.seed) =>
        \A n \in Reach(pass.out) : is_leaf(n) => grad[n] = prev.grad[n]

\* the nodes produced by an operator
OpNodes == {n \in NodeIds : ~is_leaf(n)}

\* the gradient the table of C6 gives the operand at position i of a op b
Table(op, i, a, b) ==
    CASE op = "add" -> Rat(1)
      [] op = "sub" -> IF i = 1 THEN Rat(1) ELSE Rat(-1)
      [] op = "mul" -> IF i = 1 THEN b ELSE a
      [] op = "div" -> IF i = 1 THEN RDiv(Rat(1), b) ELSE RNeg(RDiv(a, RMul(b, b)))
      [] op = "neg" -> Rat(-1)

\* out is the only operator node, its operands are in place, and they are
\* leaves or constants, two different leaves when both are nodes
SingleOperator(out) ==
    /\ OpNodes = {out}
    /\ nodes[out].op \in {"add", "sub", "mul", "div", "neg"}
    /\ Len(nodes[out].parents) = Arity(nodes[out].op)
    /\ Len(nodes[out].parents) = 2 =>
          (nodes[out].parents[1].var /\ nodes[out].parents[2].var
             => nodes[out].parents[1].id # nodes[out].parents[2].id)

\* C6: for a single operator applied to leaves (or to a leaf and a constant
\* on either side), backward() with the default seed on the result gives
\* (1, 1) for a+b, (1, -1) for a-b, (b, a) for a*b, (1/b, -a/b^2) for a/b and
\* -1 for -a.
C6_SingleOperatorGradients ==
    (Returned /\ pass.seed = None /\ SingleOperator(pass.out)) =>
        LET ps == nodes[pass.out].parents
            a  == val_of(ps[1])
            b  == IF Len(ps) = 2 THEN val_of(ps[2]) ELSE None
        IN  \A i \in 1..Len(ps) :
                ps[i].var => grad[ps[i].id] = Table(nodes[pass.out].op, i, a, b)

\* backward() has returned on a / b with a = 3, b = -2: (-1/2, -3/4)
C6_Witness ==
    /\ Returned /\ pass.seed = None /\ SingleOperator(pass.out)
    /\ nodes[pass.out].op = "div"
    /\ nodes[pass.out].parents = <<VarRef(1), VarRef(2)>>
    /\ nodes[1].val = Rat(3) /\ nodes[2].val = Rat(-2)
    /\ grad[1] = <<-1, 2>> /\ grad[2] = <<-3, 4>>

\* C7: for y = pow(x, p), x a node and p a plain constant, backward(seed) on
\* y completes without error and sets x.grad to seed*p*y/x when x # 0 and to
\* 0 when x = 0 and p >= 1.
C7_PowGradient ==
    (/\ CleanPass
     /\ nodes[pass.out].op = "pow"
     /\ Len(nodes[pass.out].parents) = 2
     /\ nodes[pass.out].parents[1].var /\ ~nodes[pass.out].parents[2].var) =>
        LET x == nodes[pass.out].parents[1].id
            xv == nodes[x].val
            pv == nodes[pass.out].parents[2].c
            yv == nodes[pass.out].val
        IN  (~RIsZero(xv) \/ ~RLess(pv, Rat(1))) =>
              /\ pass.status # "raised"
              /\ Returned =>
                   grad[x] = IF RIsZero(xv) THEN Rat(0)
                             ELSE RDiv(RMul(RMul(SeedVal(pass.seed), pv), yv), xv)

\* C8: after detach() on a node produced by an operator its operand list is
\* empty, its gradient is None and its engine is idle, and a later backward
\* pass from a consumer of the detached node (over a graph without pow)
\* does not raise, stores a gradient in the detached node, and touches none
\* of its former operands.
C8_DetachedNodeIsLeaf ==
    /\ (pass.kind = "detach" /\ ~is_leaf(pass.out)) =>
          /\ nodes[pass.out].parents = <<>>
          /\ grad[pass.out] = None
          /\ Idle(eng[pass.out])
    /\ (/\ CleanPass
        /\ prev.kind = "detach" /\ ~is_leaf(prev.out)
        /\ prev.out \in Reach(pass.out) \ {pass.out}
        /\ \A n \in Reach(pass.out) : nodes[n].op # "pow") =>
          /\ pass.status # "raised"
          /\ Returned =>
               /\ grad[prev.out] # None
               /\ \A n \in NodeIds \ Reach(pass.out) :
                      Idle(eng[n]) /\ pass.recv[n] = 0

\* C9: a backward call on an output while the output or a node reachable
\* from it is still live raises at once, leaving nothing on the call stack.
C9_LiveStartRaises ==
    (pass.kind = "backward" /\ pass.live) =>
        (pass.status = "raised" /\ stack = <<>>)

\* C10: after backward() on a node returns, every Var the node depends on,
\* intermediate node or leaf, has a gradient.
C10_EveryAncestorHasGrad ==
    (Returned /\ pass.clean) =>
        \A n \in Reach(pass.out) \ {pass.out} : grad[n] # None

\* every operator node reachable from out still has its operands
Attached(out) ==
    \A c \in Reach(out) :
        nodes[c].op # "None" => Len(nodes[c].parents) = Arity(nodes[c].op)

\* C11: when a backward call on a graph whose nodes all have their operands
\* raises, the gradient of every node is what it was when the call began.
C11_RaiseLeavesGradients ==
    (/\ pass.kind = "backward" /\ pass.status = "raised"
     /\ Attached(pass.out)) =>
        grad = prev.grad

\* the tuple of gradients an operator node's gradient() has returned is on
\* the frame of its _propagate
Returning ==
    /\ stack # <<>> /\ Top.fn = "propagate" /\ Top.pc = "loop"
    /\ ~is_leaf(Top.self)

\* C12: the tuple gradient() returns for an operator node has one entry per
\* operand, None at exactly the positions of the plain constants, and
\* _do_task is called on Vars only.
C12_NoneExactlyAtConstants ==
    /\ Returning =>
          LET ps == nodes[Top.self].parents
          IN  Len(ps) = Arity(nodes[Top.self].op) =>
                /\ Len(Top.grads) = Len(ps)
                /\ \A i \in 1..Len(ps) : (Top.grads[i] = None) <=> ~ps[i].var
    /\ \A k \in 1..Len(stack) : stack[k].self \in NodeIds

\* the next statement of the script builds a node
Building == ~Built /\ stack = <<>> /\ prog[ip].f \notin {"Var", "backward"}

\* st is div(x1, x2), x1 / x2 or reciprocal(x2) with x2 equal to 0, or
\* pow(x, p) (x ** p for a Var x) with x equal to 0 and p < 0
ZeroBuild(st) ==
    \/ /\ st.f \in {"div", "/"}
       /\ RIsZero(val_of(st.args[2]))
    \/ /\ st.f = "reciprocal"
       /\ RIsZero(val_of(st.args[1]))
    \/ /\ st.f = "pow" \/ (st.f = "**" /\ st.args[1].var)
       /\ RIsZero(val_of(st.args[1]))
       /\ RLess(val_of(st.args[2]), Rat(0))

\* C13: building div(x1, x2), x1 / x2 or reciprocal(x2) with x2 = 0, or
\* pow(x, p) with x = 0 and p < 0, raises ZeroDivisionError, creates no node
\* and leaves every node's value, operator, operands, gradient and engine
\* as they were.
C13_ZeroBuildRaises ==
    [][(Building /\ ZeroBuild(prog[ip])) =>
          /\ err' = "ZeroDivisionError"
          /\ UNCHANGED <<nodes, grad, eng>>]_vars

\* a division by a Var of value 0 has raised after a backward pass had
\* given that Var a gradient
C13_Witness ==
    /\ err = "ZeroDivisionError"
    /\ Len(nodes) = Len(prog) - 2
    /\ prog[Len(prog)].f = "/"
    /\ prog[Len(prog)].args = <<X(1), X(2)>>
    /\ nodes[2].val = Rat(0) /\ grad[2] = Rat(1)
    /\ \A n \in NodeIds : Idle(eng[n])

\* C14: an operator written on a Var, a plain constant on either side
\* included, builds a new node whose operator is the contract of that name
\* and whose value is the contract's compute of (left, right) as written,
\* whenever that compute is defined.
C14_OperatorsRoute ==
    [][(Building /\ prog[ip].f \in Syms) =>
          LET st == prog[ip]
              c  == Contract(st.f, st.args)
              r  == compute(c, st.args)
          IN  r.ok =>
                /\ Len(nodes') = Len(nodes) + 1
                /\ nodes'[Len(nodes')].op = c
                /\ nodes'[Len(nodes')].val = r.v]_vars

RECURSIVE Sum(_)
Sum(q) == IF q = <<>> THEN Rat(0) ELSE RAdd(q[1], Sum(Tail(q)))

\* C15: activate on a live engine, accumulate on an engine that is not live
\* and del_dependency with no pending dependency raise (RuntimeError,
\* RuntimeError, ValueError) and leave the engine's three fields as they
\* were; the pending count is never negative.
C15_MisuseRaisesUnchanged ==
    /\ [](\A n \in 1..Len(eng) : eng[n].num_dep >= 0)
    /\ [][/\ (EngActivate /\ is_working(eng[1])) =>
               (err' = "RuntimeError" /\ eng' = eng)
          /\ ((\E g \in EngGrads : EngAccumulate(g)) /\ ~is_working(eng[1])) =>
               (err' = "RuntimeError" /\ eng' = eng)
          /\ (EngDelDependency /\ zero_dependency(eng[1])) =>
               (err' = "ValueError" /\ eng' = eng)]_vars

\* del_dependency has just raised on a live engine that holds an
\* accumulated gradient and no pending dependency
C15_Witness ==
    /\ Len(eng) = 1 /\ nodes = <<>>
    /\ err = "ValueError"
    /\ eng[1] = [num_dep |-> 0, acc |-> Rat(0), working |-> TRUE]
    /\ acclog[1] = <<Rat(1), Rat(-1)>>

\* C16: get_grad returns the sum of the values accumulated since the engine
\* was created or last reset, and 0 when there is none.
C16_GetGradIsSum ==
    \A n \in 1..Len(eng) : get_grad(eng[n]) = Sum(acclog[n])

\* backward has called _start_task on the output's operands and is about to
\* call _propagate on the output
DiscoveryDone ==
    /\ Len(stack) = 1 /\ Top.fn = "backward"
    /\ Top.i > Len(nodes[Top.self].parents)

\* C17: at the end of discovery in a pass started from a clean state, every
\* node reachable from the output is live, the output has pending count 0
\* and every other reachable node has as many pending dependencies as there
\* are operand positions of reachable nodes that refer to it; _start_task
\* has been called once per such position and has expanded each node's
\* operands once; no other node has been touched.
C17_DiscoveryCounts ==
    (CleanPass /\ DiscoveryDone) =>
        /\ \A n \in Reach(pass.out) :
              LET k == IF n = pass.out THEN 0
                       ELSE Cardinality(Edges(pass.out, n))
              IN  /\ is_working(eng[n])
                  /\ eng[n].num_dep = k
                  /\ pass.disc[n] = k
                  /\ pass.expanded[n] = IF n = pass.out THEN 0 ELSE 1
        /\ \A n \in NodeIds \ Reach(pass.out) :
              Idle(eng[n]) /\ pass.disc[n] = 0

\* discovery from y3 of test_topo1 is over: x2, an operand of y1 and of y2,
\* has two pending dependencies and was expanded once
C17_Witness ==
    /\ prog = Topo1 /\ CleanPass /\ DiscoveryDone /\ pass.out = 6
    /\ eng[2].num_dep = 2 /\ pass.disc[2] = 2 /\ pass.expanded[2] = 1

\* a pass from a clean state over nodes that all have their operands and
\* none of which is a pow node is under way
CleanRunning ==
    /\ CleanPass /\ pass.status = "running"
    /\ Arith(pass.out)

\* C18: a backward pass from a clean state over a graph on which no
\* operator raises ends: backward returns, every reachable node has fired
\* once and no node is left live or with a pending dependency; on the way
\* an engine goes live only before its node has fired and goes idle only
\* when its node has fired.
C18_PassTerminates ==
    /\ CleanRunning ~>
          /\ Returned /\ stack = <<>>
          /\ \A n \in Reach(pass.out) : pass.fired[n] = 1
          /\ \A n \in NodeIds : Idle(eng[n])
    /\ [][CleanRunning =>
             \A n \in NodeIds :
                 /\ (~is_working(eng[n]) /\ is_working(eng'[n])) =>
                        pass.fired[n] = 0
                 /\ (is_working(eng[n]) /\ ~is_working(eng'[n])) =>
                        pass.fired[n] = 1]_vars

\* backward has returned from s = x1 + x2; m = x1 * s; d = m - x1; q = 2 / d:
\* all six nodes have fired and x1, used three times, received three times
C18_Witness ==
    /\ Len(nodes) = 6 /\ nodes[6].op = "div" /\ nodes[5].op = "sub"
    /\ Returned /\ pass.clean /\ pass.out = 6
    /\ \A n \in NodeIds : pass.fired[n] = 1 /\ Idle(eng[n])
    /\ pass.recv[1] = 3

\* C19: no step of a call of backward on an output changes a node's value,
\* operator or operands, nor the gradient or the engine of a node that is
\* not reachable from the output.
C19_PassFrame ==
    [][(pass'.kind = "backward" /\ (stack # <<>> \/ calls' # calls)) =>
          /\ nodes' = nodes
          /\ \A n \in NodeIds \ Reach(pass'.out) :
                grad'[n] = grad[n] /\ eng'[n] = eng[n]]_vars

\* backward has returned on y2 of test_topo1 after a backward on y1: x1 is
\* not reachable from y2 and still holds the gradient y1's pass gave it
C19_Witness ==
    /\ prog = Topo1 /\ Returned /\ pass.out = 5 /\ pass.seed = None
    /\ prev.kind = "backward" /\ prev.out = 4 /\ prev.seed = None
    /\ grad[1] = Rat(2) /\ grad[2] = Rat(1) /\ grad[3] = Rat(1)

\* C20: whenever a call of backward returns, every leaf reachable from the
\* output has fired in that call, and on a graph of add, sub, mul, div and
\* neg nodes holds the chain-rule gradient for that output and seed.
C20_ReturnWritesEveryLeaf ==
    Returned =>
        \A n \in Reach(pass.out) :
            is_leaf(n) =>
                /\ pass.fired[n] = 1
                /\ Arith(pass.out) =>
                      grad[n] = RMul(SeedVal(pass.seed), PathSum(pass.out, n))

====
